---- MODULE Spec2Model ----
(***************************************************************************)
(* Model of the hotel_assist agent pipeline:                               *)
(*   - VectorStore (utils/vector_store.py): the Qdrant collection of        *)
(*     memory points, search_memories / find_similar_memory / store_memory *)
(*   - MemoryExtractionAgent and ReservationAgent (agents/agents.py)        *)
(*   - the LangGraph topology of create_graph (agent_graph/graph.py) with   *)
(*     the add_messages reducers of AgentGraphState (states/state.py)       *)
(* Texts, ids, timestamps and devices are small integers; similarities are *)
(* cosine scores scaled by 100.                                            *)
(***************************************************************************)
EXTENDS Integers, Sequences, FiniteSets, TLC

VARIABLES
    points,             \* payloads of the points in the Qdrant collection
    collection_exists,  \* whether COLLECTION_NAME exists in Qdrant
    clock,              \* datetime.now(), a logical clock
    nextUuid,           \* uuid.uuid4() for memory ids, a fresh-id counter
    calls,              \* number of direct VectorStore API calls made
    last,               \* record of the last direct store_memory call
    pc,                 \* position of the graph run
    state,              \* the channels of AgentGraphState
    pending,            \* update returned by the running node, not yet merged
    order,              \* nodes started in this run, in order
    applied,            \* nodes whose update has been merged, in order
    lens,               \* length of messages at the start and after each merge
    prev,               \* the node merged last and the channels before its merge
    turns,              \* number of runs started
    vs_cache,           \* lru_cache of get_vector_store
    nextMsgId,          \* uuid4 counter of add_messages
    me,                 \* record of the MemoryExtractionAgent invocation whose
                        \* update is waiting to be merged
    ra,                 \* record of the ReservationAgent invocation whose
                        \* update is waiting to be merged
    outage,             \* whether a get_llm of this run raised ModelError
    probe,              \* the last direct call of a function and its result
    limit,              \* recursion_limit of the run
    report,             \* what the caller of astream reports for the run
    last_processed_message_id,  \* the global of whatsapp_response.py
    deliveries,         \* webhook deliveries received, with their responses
    runs,               \* concurrent runs of one compiled workflow
    agents              \* the agent objects of the node calls in progress

vars == <<points, collection_exists, clock, nextUuid, calls, last, pc, state,
          pending, order, applied, lens, prev, turns, vs_cache, nextMsgId, me,
          ra, outage, probe, limit, report, last_processed_message_id,
          deliveries, runs, agents>>

storeVars == <<points, collection_exists, clock, nextUuid>>
apiVars == <<calls, last>>
graphVars == <<pc, state, pending, order, applied, lens, prev, turns,
               vs_cache, nextMsgId, me, ra, outage, limit, report>>
hookVars == <<last_processed_message_id, deliveries>>
concVars == <<runs, agents>>
auxVars == <<hookVars, concVars>>
runVars == <<pc, state, pending, order, applied, lens, prev, turns,
             vs_cache, nextMsgId, me, ra, outage, probe, limit, report>>

----------------------------------------------------------------------------
(* Bounds *)

MaxText == 3
MaxStoreCalls == 3
MaxTurns == 2
MaxRemoteStores == 1

Texts == 1..MaxText

(* None *)
NoId == 0
NoDevice == 0
NoText == 0

(* VectorStore.device_id of this machine, and the id of another machine
   that writes to the same Qdrant collection. *)
ThisDevice == 1
OtherDevice == 2
Devices == {ThisDevice, OtherDevice}

SIMILARITY_THRESHOLD == 90

----------------------------------------------------------------------------
(* VectorStore *)

(* Cosine score (x100) between the embeddings of two texts, as
   client.search reports it: 100 for the same text, symmetric.  Texts 1,2
   score exactly the threshold, texts 2,3 just below it. *)
Sim(a, b) ==
    LET lo == IF a < b THEN a ELSE b
        hi == IF a < b THEN b ELSE a
    IN  IF a = b THEN 100
        ELSE IF hi - lo = 1 /\ lo % 2 = 1 THEN 90
        ELSE IF hi - lo = 1 THEN 89
        ELSE 50

(* hash(text): the point id used when metadata carries no "id". It lies
   outside the range of generated uuids. *)
Hash(text) == 1000 + text

(* Memory with no result (None). *)
NoMemory == [pid |-> NoId, text |-> NoText, id |-> NoId,
             device_id |-> NoDevice, timestamp |-> 0]

(* search_memories(query, k=1, device_id): the hits client.search may
   return with limit 1.  No collection gives []; device_id None means no
   filter; ties between equal scores are broken by Qdrant. *)
SearchMemoriesTop1(pts, exists, query, device_id) ==
    LET cand == IF device_id = NoDevice THEN pts
                ELSE {p \in pts : p.device_id = device_id}
    IN  IF ~exists THEN {}
        ELSE {p \in cand : \A q \in cand : Sim(q.text, query) <= Sim(p.text, query)}

(* find_similar_memory(text, device_id): the values it may return. *)
FindSimilarMemory(pts, exists, text, device_id) ==
    LET results == SearchMemoriesTop1(pts, exists, text, device_id)
        hits == {p \in results : Sim(p.text, text) >= SIMILARITY_THRESHOLD}
    IN  IF hits = {} THEN {NoMemory} ELSE hits

(* client.upsert: a point with the same point id is overwritten. *)
Upsert(pts, point) ==
    {p \in pts : p.pid # point.pid} \cup {point}

(* The point id store_memory writes: PointStruct(id=...). *)
PointId(text, meta_id, similar) ==
    LET id == IF similar # NoMemory /\ similar.id # NoId
              THEN similar.id ELSE meta_id
    IN  IF id # NoId THEN id ELSE Hash(text)

(* store_memory(text, metadata, device_id) once find_similar_memory has
   returned `similar`: the points afterwards.  metadata is given by its
   "id" (NoId when the key is absent) and its "timestamp". *)
StoreMemory(pts, text, meta_id, meta_ts, device_id, similar) ==
    LET dev == IF device_id = NoDevice THEN ThisDevice ELSE device_id
        id == IF similar # NoMemory /\ similar.id # NoId
              THEN similar.id ELSE meta_id
        pid == PointId(text, meta_id, similar)
    IN  Upsert(pts, [pid |-> pid, text |-> text, id |-> id,
                     device_id |-> dev, timestamp |-> meta_ts])

(* The device a store_memory call writes under. *)
OwnerOf(device_id) ==
    IF device_id = NoDevice THEN ThisDevice ELSE device_id

NoCall == [text |-> NoText, meta_id |-> NoId, owner |-> NoDevice,
           before |-> {}, similar |-> NoMemory, pid |-> NoId,
           prev_text |-> NoText, prev_owner |-> NoDevice, prev_pid |-> NoId]

(* A direct call VectorStore.store_memory(text, metadata, device_id) by a
   client of the class; metadata has a fresh unique "id" or none. *)
StoreMemoryCall(text, with_id, device_id) ==
    /\ calls < MaxStoreCalls
    /\ \E similar \in FindSimilarMemory(points, collection_exists, text,
                                        OwnerOf(device_id)) :
        LET meta_id == IF with_id THEN nextUuid ELSE NoId
        IN  /\ points' = StoreMemory(points, text, meta_id, clock, device_id, similar)
            /\ last' = [text |-> text, meta_id |-> meta_id,
                        owner |-> OwnerOf(device_id),
                        before |-> points, similar |-> similar,
                        pid |-> PointId(text, meta_id, similar),
                        prev_text |-> last.text, prev_owner |-> last.owner,
                        prev_pid |-> last.pid]
    /\ collection_exists' = TRUE
    /\ nextUuid' = IF with_id THEN nextUuid + 1 ELSE nextUuid
    /\ clock' = clock + 1
    /\ calls' = calls + 1
    /\ UNCHANGED <<runVars, auxVars>>

----------------------------------------------------------------------------
(* AgentGraphState and the add_messages reducer *)

(* The content of a message: the fields of the JSON object an agent
   serialises, or a plain text.  kind is "json" (json.dumps of a dict),
   "str" (str() of a parsed non-dict), "error_text" (an error message),
   "user", "memory_context", "text", "tool_same", "tool_wrapped". *)
Content(kind, is_important, formatted_memory, raw_text, error, device_info) ==
    [kind |-> kind, is_important |-> is_important,
     formatted_memory |-> formatted_memory, raw_text |-> raw_text,
     error |-> error, device_info |-> device_info]

PlainContent(kind) == Content(kind, "absent", NoText, FALSE, FALSE, FALSE)

(* A message; id is NoId until add_messages assigns one. *)
Message(role, content) == [id |-> NoId, role |-> role, content |-> content]

ChannelOrder == <<"research_question", "memory_injection_response",
                  "memory_extraction_response", "reservation_response",
                  "support_response", "human_response", "messages">>

EmptyState == [research_question |-> <<>>, memory_injection_response |-> <<>>,
               memory_extraction_response |-> <<>>, reservation_response |-> <<>>,
               support_response |-> <<>>, human_response |-> <<>>,
               messages |-> <<>>]

(* add_messages gives every message without an id a fresh uuid. *)
RECURSIVE AssignIds(_, _)
AssignIds(msgs, next) ==
    IF msgs = <<>> THEN [msgs |-> <<>>, next |-> next]
    ELSE LET m == Head(msgs)
             withId == IF m.id = NoId THEN [m EXCEPT !.id = next] ELSE m
             rest == AssignIds(Tail(msgs), IF m.id = NoId THEN next + 1 ELSE next)
         IN  [msgs |-> <<withId>> \o rest.msgs, next |-> rest.next]

(* Variant: add_messages that appends without looking at ids. *)
MergeAppendOnly(merged, right) == merged \o right

(* add_messages merges by id: a message of `right` whose id is already in
   the list replaces that entry in place, any other message is appended. *)
RECURSIVE MergeById(_, _)
MergeById(merged, right) ==
    IF right = <<>> THEN merged
    ELSE LET m == Head(right)
             idx == {i \in 1..Len(merged) : merged[i].id = m.id}
         IN  IF idx # {}
             THEN MergeById([merged EXCEPT ![CHOOSE i \in idx : TRUE] = m], Tail(right))
             ELSE MergeById(Append(merged, m), Tail(right))

(* The add_messages reducer every channel of AgentGraphState is annotated
   with. *)
AddMessages(left, right, next) ==
    LET r == AssignIds(right, next)
    IN  [msgs |-> MergeById(left, r.msgs), next |-> r.next]

(* One superstep's writes: the node's returned mapping is merged channel by
   channel through the channel's reducer. *)
RECURSIVE ApplyChannels(_, _, _, _)
ApplyChannels(st, update, chans, next) ==
    IF chans = <<>> THEN [state |-> st, next |-> next]
    ELSE LET c == Head(chans)
             r == AddMessages(st[c], update[c], next)
         IN  ApplyChannels([st EXCEPT ![c] = r.msgs], update, Tail(chans), r.next)

----------------------------------------------------------------------------
(* Agent.get_llm *)

(* None as the server of an agent. *)
NoServer == "None"

(* The names under which llm.py and groq.py register their classes. *)
RegisteredModels == {"gemini", "groq"}

(* The server names an agent can be configured with; "other" stands for
   any name that is not registered. *)
Servers == RegisteredModels \cup {"other"}

(* The model type of _create_fallback_model. *)
FallbackServer == "gemini"

(* get_llm: server_name = self.server if self.server else "gemini" *)
ServerName(server) == IF server = NoServer THEN "gemini" ELSE server

(* create_model: ValueError when ModelRegistry.get_model finds no class
   under the name, otherwise the outcome of the constructor, which raises
   ModelError when the API key is missing or the client cannot be built.
   (The retry on "got multiple values for argument" needs a keyword that
   collides with a positional parameter; the keywords get_llm passes are
   temperature, tools, session, model and model_name, so it is never
   taken.) *)
CreateModel(model_type, ctor_ok) ==
    IF model_type \notin RegisteredModels THEN "ValueError"
    ELSE IF ctor_ok THEN "ok"
    ELSE "ModelError"

(* Variant: a get_llm that propagates the first failure. *)
GetLlmNoFallback(primary_ok, fallback_ok) ==
    IF primary_ok THEN "configured"
    ELSE "ModelError"

(* get_llm: create_model for the configured server, on any exception one
   attempt with "gemini", and ModelError when that fails too. *)
GetLlm(primary_ok, fallback_ok) ==
    IF primary_ok THEN "configured"
    ELSE IF fallback_ok THEN "gemini"
    ELSE "ModelError"

(* The create_model calls get_llm makes, in order: the one in its try
   block and, when the model it returns is not the configured one, the one
   of _create_fallback_model. *)
CreateModelCalls(server_name, primary_ok) ==
    IF primary_ok THEN <<server_name>>
    ELSE <<server_name, FallbackServer>>

----------------------------------------------------------------------------
(* MemoryExtractionAgent *)

EmptyText == -1

(* What llm.invoke does: it raises, or returns a text that is not JSON, a
   JSON value that is not an object, a text whose parsing fails with
   another exception, or a JSON object with is_important true, false or
   absent and formatted_memory a text, "" or null. *)
LlmOutputs ==
    {[kind |-> k, is_important |-> "absent", formatted_memory |-> NoText] :
        k \in {"raise", "nonjson", "list", "parse_fault"}}
    \cup [kind : {"dict"}, is_important : {"true", "false", "absent"},
          formatted_memory : Texts \cup {NoText, EmptyText}]

(* Variant: _should_store_memory without the formatted_memory test. *)
ShouldStoreMemoryAnyText(response) ==
    /\ response.kind = "dict"
    /\ response.is_important = "true"

(* _should_store_memory *)
ShouldStoreMemory(response) ==
    /\ response.kind = "dict"
    /\ response.is_important = "true"
    /\ response.formatted_memory \notin {NoText, EmptyText}

(* _get_llm_response reaches _process_memory_storage. *)
ReachesStorage(llm, out, vs) ==
    /\ llm # "ModelError"
    /\ out.kind = "dict"
    /\ ShouldStoreMemory(out)
    /\ vs = "store"

(* The device_id argument of the agent's find_similar_memory call. *)
LookupDevice == NoDevice

(* _process_memory_storage calls store_memory when its lookup returned
   nothing (safe_execute turns a raised lookup into None). *)
CallsStoreMemory(similar) == similar = NoMemory

(* Variant: _get_llm_response without the except json.JSONDecodeError
   clause, so a text that is not JSON escapes as an exception. *)
GetLlmResponseNoDecodeCatch(llm, out, reaches, stored_branch) ==
    IF llm = "ModelError" \/ out.kind \in {"raise", "nonjson"}
    THEN [exc |-> TRUE, content |-> PlainContent("error_text")]
    ELSE IF out.kind = "parse_fault"
    THEN [exc |-> FALSE, content |-> Content("json", "false", NoText, TRUE, TRUE, FALSE)]
    ELSE IF out.kind = "list"
    THEN [exc |-> FALSE, content |-> PlainContent("str")]
    ELSE [exc |-> FALSE,
          content |-> Content("json", out.is_important, out.formatted_memory,
                              FALSE, FALSE, reaches /\ stored_branch)]

(* _get_llm_response: an exception that escapes it, or the response it
   returns as message content.  stored_branch tells whether
   _process_memory_storage took the branch that calls store_memory. *)
GetLlmResponse(llm, out, reaches, stored_branch) ==
    IF llm = "ModelError" \/ out.kind = "raise"
    THEN [exc |-> TRUE, content |-> PlainContent("error_text")]
    ELSE IF out.kind = "nonjson"
    THEN [exc |-> FALSE, content |-> Content("json", "false", NoText, TRUE, FALSE, FALSE)]
    ELSE IF out.kind = "parse_fault"
    THEN [exc |-> FALSE, content |-> Content("json", "false", NoText, TRUE, TRUE, FALSE)]
    ELSE IF out.kind = "list"
    THEN [exc |-> FALSE, content |-> PlainContent("str")]
    ELSE [exc |-> FALSE,
          content |-> Content("json", out.is_important, out.formatted_memory,
                              FALSE, FALSE, reaches /\ stored_branch)]

(* _update_state_with_response and _handle_error: the agent's state with
   the message set as its result field and appended to messages. *)
UpdateStateWith(st, field, content) ==
    LET message_object == Message("assistant", content)
    IN  [st EXCEPT ![field] = <<message_object>>,
                   !.messages = st.messages \o <<message_object>>]

(* Variant: an _handle_error that sets the result field and forgets to
   append the error message to messages. *)
MemoryExtractionInvokeErrorNotAppended(st, response) ==
    IF response.exc
    THEN [raised |-> FALSE,
          update |-> [st EXCEPT !.memory_extraction_response =
                          <<[id |-> NoId, role |-> "assistant",
                             content |-> [kind |-> "error_text",
                                          is_important |-> "absent",
                                          formatted_memory |-> NoText,
                                          raw_text |-> FALSE, error |-> FALSE,
                                          device_info |-> FALSE]]>>]]
    ELSE [raised |-> FALSE,
          update |-> [st EXCEPT !.memory_extraction_response =
                          <<[id |-> NoId, role |-> "assistant",
                             content |-> response.content]>>,
                      !.messages = st.messages \o
                          <<[id |-> NoId, role |-> "assistant",
                             content |-> response.content]>>]]

(* MemoryExtractionAgent.invoke: the try block and its except clause. *)
MemoryExtractionInvoke(st, response) ==
    IF response.exc
    THEN [raised |-> FALSE,
          update |-> UpdateStateWith(st, "memory_extraction_response",
                                     PlainContent("error_text"))]
    ELSE [raised |-> FALSE,
          update |-> UpdateStateWith(st, "memory_extraction_response",
                                     response.content)]

----------------------------------------------------------------------------
(* ReservationAgent *)

(* Placeholders of RESERVATION_SYSTEM_PROMPT and the keyword arguments
   _prepare_reservation_prompt passes to str.format. *)
ReservationPlaceholders == {"chat_history", "memory_context", "tools_description"}
ReservationFormatArgs == {"reservations_result", "add_reservation_result",
                          "update_reservation_result", "delete_reservation_result",
                          "chat_history", "tools_description"}

(* str.format raises KeyError for a placeholder without an argument. *)
FormatRaises(placeholders, args) == ~(placeholders \subseteq args)

(* What the model returns to the reservation agent: it raises, or a text
   without marker phrase, or a text with one that is a JSON object, another
   JSON value, or not JSON. *)
ReservationOutputs == {"raise", "plain", "marker_dict", "marker_list", "marker_text"}

(* _process_reservation_response: the content of the message. *)
ProcessReservationResponse(out) ==
    IF out = "plain" THEN PlainContent("text")
    ELSE IF out = "marker_dict" THEN PlainContent("tool_same")
    ELSE PlainContent("tool_wrapped")

(* The statement of invoke's try block that raises: the str.format of
   _prepare_reservation_prompt, get_llm or llm.invoke in
   _get_reservation_response; "none" when the block returns. *)
ReservationFault(llm, out) ==
    IF FormatRaises(ReservationPlaceholders, ReservationFormatArgs) THEN "format"
    ELSE IF llm = "ModelError" THEN "get_llm"
    ELSE IF out = "raise" THEN "invoke"
    ELSE "none"

(* Variant: an invoke whose except clause re-raises. *)
ReservationInvokeReraises(st, llm, out) ==
    IF ReservationFault(llm, out) # "none"
    THEN [raised |-> TRUE, update |-> st]
    ELSE [raised |-> FALSE,
          update |-> UpdateStateWith(st, "reservation_response",
                                     ProcessReservationResponse(out))]

(* ReservationAgent.invoke: the try block and its except clause. *)
ReservationInvoke(st, llm, out) ==
    IF ReservationFault(llm, out) # "none"
    THEN [raised |-> FALSE,
          update |-> UpdateStateWith(st, "reservation_response",
                                     PlainContent("error_text"))]
    ELSE [raised |-> FALSE,
          update |-> UpdateStateWith(st, "reservation_response",
                                     ProcessReservationResponse(out))]

----------------------------------------------------------------------------
(* ReservationAgent: the response text *)

(* A response text is a sequence of pieces: the four marker phrases
   (written here without their diacritics), a word, the JSON punctuation, a key with its colon, a string literal, a
   string literal that contains the first marker phrase, and an opening of
   arrays nested deeper than json.loads can follow. *)
tool_markers == {"REZERVASYON KAYITLARI", "REZERVASYON EKLEME SONUCLARI",
                 "REZERVASYON GUNCELLEME SONUCLARI", "REZERVASYON SILME SONUCLARI"}

QuotedMarker == "\"REZERVASYON KAYITLARI\""
StringLiterals == {"\"x\"", QuotedMarker}
Pieces == tool_markers \cup StringLiterals
              \cup {"word", "{", "}", "[", "]", "\"k\":", "[[[[...."}

MaxResponseLen == 4

ResponseTexts == UNION {[1..n -> Pieces] : n \in 0..MaxResponseLen}

(* marker in response, for one piece of the text *)
PieceContains(piece, marker) ==
    \/ piece = marker
    \/ piece = QuotedMarker /\ marker = "REZERVASYON KAYITLARI"

(* Variant: any(...) replaced by all(...). *)
IsRegularTextResponseAllMarkers(response) ==
    ~ \A marker \in tool_markers :
          \E i \in 1..Len(response) : PieceContains(response[i], marker)

(* _is_regular_text_response *)
IsRegularTextResponse(response) ==
    ~ \E marker \in tool_markers :
          \E i \in 1..Len(response) : PieceContains(response[i], marker)

(* The JSON scanner at the head of t: the value it reads, written as
   json.dumps writes it, and the rest of the text; "invalid" for
   JSONDecodeError and "fault" for the RecursionError of nesting that is
   too deep. *)
RECURSIVE ScanOnce(_)
ScanOnce(t) ==
    LET invalid == [st |-> "invalid", kind |-> "none", canon |-> <<>>, rest |-> <<>>]
        closes(r, bracket) == r.rest # <<>> /\ Head(r.rest) = bracket
    IN  IF t = <<>> THEN invalid
        ELSE IF Head(t) = "[[[[...."
        THEN [invalid EXCEPT !.st = "fault"]
        ELSE IF Head(t) \in StringLiterals
        THEN [st |-> "ok", kind |-> "str", canon |-> <<Head(t)>>, rest |-> Tail(t)]
        ELSE IF Head(t) = "["
        THEN IF Tail(t) # <<>> /\ Head(Tail(t)) = "]"
             THEN [st |-> "ok", kind |-> "list", canon |-> <<"[", "]">>,
                   rest |-> Tail(Tail(t))]
             ELSE LET r == ScanOnce(Tail(t))
                  IN  IF r.st # "ok" THEN r
                      ELSE IF closes(r, "]")
                      THEN [st |-> "ok", kind |-> "list",
                            canon |-> <<"[">> \o r.canon \o <<"]">>,
                            rest |-> Tail(r.rest)]
                      ELSE invalid
        ELSE IF Head(t) = "{"
        THEN IF Tail(t) # <<>> /\ Head(Tail(t)) = "}"
             THEN [st |-> "ok", kind |-> "dict", canon |-> <<"{", "}">>,
                   rest |-> Tail(Tail(t))]
             ELSE IF Tail(t) # <<>> /\ Head(Tail(t)) = "\"k\":"
             THEN LET r == ScanOnce(Tail(Tail(t)))
                  IN  IF r.st # "ok" THEN r
                      ELSE IF closes(r, "}")
                      THEN [st |-> "ok", kind |-> "dict",
                            canon |-> <<"{", "\"k\":", " ">> \o r.canon \o <<"}">>,
                            rest |-> Tail(r.rest)]
                      ELSE invalid
             ELSE invalid
        ELSE invalid

(* json.loads: one value and nothing after it. *)
JsonLoads(response) ==
    LET r == ScanOnce(response)
    IN  IF r.st = "ok" /\ r.rest # <<>>
        THEN [r EXCEPT !.st = "invalid", !.kind = "none", !.canon = <<>>, !.rest = <<>>]
        ELSE r

(* The text a function returns: the response itself, or
   json.dumps({"response": ...}) of a parsed value (body is the value as
   json.dumps writes it) or of the raw text (body is the text). *)
Unchanged(response) == [wrapped |-> FALSE, raw |-> TRUE, body |-> response]
WrappedValue(canon) == [wrapped |-> TRUE, raw |-> FALSE, body |-> canon]
WrappedText(response) == [wrapped |-> TRUE, raw |-> TRUE, body |-> response]

(* _format_tool_response *)
FormatToolResponse(response) ==
    LET json_obj == JsonLoads(response)
    IN  IF json_obj.st = "ok"
        THEN IF json_obj.kind = "dict" THEN Unchanged(response)
             ELSE WrappedValue(json_obj.canon)
        ELSE IF json_obj.st = "invalid" THEN WrappedText(response)
        ELSE Unchanged(response)

(* _process_reservation_response: the content of the message for a
   response text. *)
ProcessResponseText(response) ==
    IF IsRegularTextResponse(response) THEN Unchanged(response)
    ELSE FormatToolResponse(response)

----------------------------------------------------------------------------
(* Model adapters: handle_function_call *)

(* The tools list an adapter is given: tool names with the arguments their
   inputSchema requires.  One tool has required arguments (the prompt
   names delete_existing_reservation with customer_name), one has none. *)
RequiredArgs ==
    [delete_existing_reservation |-> {"customer_name"},
     list_reservations |-> {}]

available_tool_names == DOMAIN RequiredArgs

(* The name of a function call: empty, a known tool, or another name. *)
CallNames == {"", "cancel_everything"} \cup available_tool_names

(* The argument map of a function call, by its keys. *)
CallArgs == SUBSET {"customer_name", "room_type", "check_in_date"}

(* self.session: None, a session whose call_tool returns, or one whose
   call_tool raises. *)
Sessions == {"None", "ok", "raises"}

(* GeminiJSONModel.handle_function_call and Groq.handle_function_call:
   whether session.call_tool was called, whether an exception left the
   function, and what it returned.  Without a session the Gemini adapter
   returns an error itself, the Groq adapter catches the AttributeError of
   None.call_tool. *)
HandleFunctionCall(adapter, name, args, session) ==
    IF name = ""
    THEN [executed |-> FALSE, raised |-> FALSE, result |-> "error"]
    ELSE IF name \notin available_tool_names
    THEN [executed |-> FALSE, raised |-> FALSE, result |-> "error"]
    ELSE IF args = {}
    THEN [executed |-> FALSE, raised |-> FALSE, result |-> "error"]
    ELSE IF session = "None"
    THEN [executed |-> FALSE, raised |-> FALSE, result |-> "error"]
    ELSE IF session = "raises"
    THEN [executed |-> TRUE, raised |-> FALSE, result |-> "error"]
    ELSE [executed |-> TRUE, raised |-> FALSE, result |-> "tool_result"]

----------------------------------------------------------------------------
(* Model adapters: invoke *)

(* The shapes of the response of generate_content_async that
   _process_response tells apart. *)
GeminiResponses == {"no_candidates", "no_parts", "text", "function_call",
                    "text_and_function_call"}

(* A message an adapter returns, by the kind of its content. *)
AdapterMessage(kind) == [raised |-> FALSE, message |-> kind]

(* Variant: a Gemini invoke without its except clause, so the ModelError
   of _generate_content leaves it. *)
GeminiInvokeNoCatch(generate_ok, response, name, args, session, summarize_ok) ==
    IF ~generate_ok THEN [raised |-> TRUE, message |-> "none"]
    ELSE AdapterMessage("text")

(* GeminiJSONModel.invoke with _process_response, _handle_function_response
   and _summarize_tool_result.  _generate_content raises ModelError, which
   the except clause of invoke turns into a message; a tool result is
   summarised by a second model call, and when that fails the raw result
   is the content. *)
GeminiInvoke(generate_ok, response, name, args, session, summarize_ok) ==
    IF ~generate_ok THEN AdapterMessage("error_text")
    ELSE IF response = "no_candidates" THEN AdapterMessage("no_answer_text")
    ELSE IF response = "no_parts" THEN AdapterMessage("bad_format_text")
    ELSE IF response = "text" THEN AdapterMessage("text")
    ELSE LET tool_result == HandleFunctionCall("gemini", name, args, session)
         IN  IF tool_result.raised THEN AdapterMessage("error_text")
             ELSE IF summarize_ok THEN AdapterMessage("summary_text")
             ELSE AdapterMessage("raw_tool_result_text")

MaxToolCalls == 2

(* A tool call of the Groq response: its name ("" when missing), whether
   its argument map is non-empty, and whether session.call_tool returns
   (ok) or raises. *)
ToolCalls == [name : {"", "list_reservations", "delete_existing_reservation"},
              has_args : BOOLEAN, ok : BOOLEAN]

ToolCallLists == UNION {[1..n -> ToolCalls] : n \in 0..MaxToolCalls}

(* Variant: a _process_tool_calls whose loop ends at the first call that
   raises. *)
RECURSIVE ProcessToolCallsStopAtFailure(_, _, _)
ProcessToolCallsStopAtFailure(tool_calls, i, log) ==
    IF i > Len(tool_calls) THEN log
    ELSE LET tool_call == tool_calls[i]
         IN  IF tool_call.name # "" /\ tool_call.has_args
             THEN IF tool_call.ok
                  THEN ProcessToolCallsStopAtFailure(tool_calls, i + 1,
                           [executed |-> Append(log.executed, i),
                            effects |-> Append(log.effects, i)])
                  ELSE [executed |-> Append(log.executed, i),
                        effects |-> log.effects]
             ELSE ProcessToolCallsStopAtFailure(tool_calls, i + 1, log)

(* _process_tool_calls from the i-th call on: the positions of the calls
   passed to session.call_tool, in order, and of those that returned.  A
   call without name or with an empty argument map is passed over; an
   exception of call_tool is logged and the loop goes on. *)
RECURSIVE ProcessToolCalls(_, _, _)
ProcessToolCalls(tool_calls, i, log) ==
    IF i > Len(tool_calls) THEN log
    ELSE LET tool_call == tool_calls[i]
         IN  IF tool_call.name # "" /\ tool_call.has_args
             THEN ProcessToolCalls(tool_calls, i + 1,
                      [executed |-> Append(log.executed, i),
                       effects |-> IF tool_call.ok THEN Append(log.effects, i)
                                   ELSE log.effects])
             ELSE ProcessToolCalls(tool_calls, i + 1, log)

NoToolLog == [executed |-> <<>>, effects |-> <<>>]

(* Groq.invoke: _create_groq_model, ainvoke and, with a session and tools,
   _process_tool_calls, all inside one try whose except clause returns a
   message. *)
GroqInvoke(create_ok, with_session_and_tools, ainvoke_ok, tool_calls) ==
    IF ~create_ok \/ ~ainvoke_ok
    THEN [raised |-> FALSE, message |-> "error_text", log |-> NoToolLog]
    ELSE IF with_session_and_tools
    THEN [raised |-> FALSE, message |-> "text",
          log |-> ProcessToolCalls(tool_calls, 1, NoToolLog)]
    ELSE [raised |-> FALSE, message |-> "text", log |-> NoToolLog]

----------------------------------------------------------------------------
(* create_graph: the agent configuration *)

ConfigFields == {"server", "model", "model_endpoint", "tools", "session"}

(* default_agent_config for the arguments server, model, model_endpoint
   and session of create_graph, written as "arg:..." *)
default_agent_config ==
    [reservation_agent |->
        [server |-> "arg:server", model |-> "arg:model",
         model_endpoint |-> "arg:model_endpoint", tools |-> "None",
         session |-> "arg:session"],
     memory_extraction_agent |->
        [server |-> "groq", model |-> "llama-3.1-8b-instant",
         model_endpoint |-> "arg:model_endpoint", tools |-> "None",
         session |-> "None"],
     memory_injection_agent |->
        [server |-> "arg:server", model |-> "arg:model",
         model_endpoint |-> "arg:model_endpoint", tools |-> "None",
         session |-> "None"]]

(* The agent names an entry of agent_mcp_config can have; support_agent
   has no node in the graph. *)
ConfigAgentNames == DOMAIN default_agent_config \cup {"support_agent"}

(* The config of one entry of agent_mcp_config: every field is absent,
   None, or a value of the caller. *)
OverrideValue(field) == "override:" \o field

OverrideConfig(shape) ==
    [k \in {f \in ConfigFields : shape[f] # "absent"} |->
        IF shape[k] = "None" THEN "None" ELSE OverrideValue(k)]

(* dict.update *)
DictUpdate(cfg, other) ==
    [k \in DOMAIN cfg \cup DOMAIN other |->
        IF k \in DOMAIN other THEN other[k] ELSE cfg[k]]

(* merged_config = {k: v for k, v in config.items() if v is not None} *)
WithoutNone(config) ==
    [k \in {f \in DOMAIN config : config[f] # "None"} |-> config[k]]

(* Variant: the entry of a known agent replaces its default config. *)
MergeAgentConfigReplacing(defaults, agent_mcp_config) ==
    [a \in DOMAIN defaults \cup DOMAIN agent_mcp_config |->
        IF a \in DOMAIN agent_mcp_config THEN agent_mcp_config[a]
        ELSE defaults[a]]

(* The loop of create_graph over agent_mcp_config.items(). *)
MergeAgentConfig(defaults, agent_mcp_config) ==
    [a \in DOMAIN defaults \cup DOMAIN agent_mcp_config |->
        IF a \notin DOMAIN agent_mcp_config THEN defaults[a]
        ELSE IF a \in DOMAIN defaults
        THEN DictUpdate(defaults[a], WithoutNone(agent_mcp_config[a]))
        ELSE agent_mcp_config[a]]

(* cfg.get(key, default) *)
CfgGet(cfg, key, default) == IF key \in DOMAIN cfg THEN cfg[key] ELSE default

(* cfg = agent_config.get(name, {}) in the node of an agent. *)
NodeConfig(agent_config, name) ==
    IF name \in DOMAIN agent_config THEN agent_config[name] ELSE <<>>

----------------------------------------------------------------------------
(* MemoryInjectionAgent and EndNodeAgent *)

(* MemoryInjectionAgent.invoke: one assistant message with the retrieved
   context, set as memory_injection_response; no Memory Store write. *)
MemoryInjectionInvoke(st) ==
    [raised |-> FALSE,
     update |-> UpdateStateWith(st, "memory_injection_response",
                                PlainContent("memory_context"))]

(* EndNodeAgent.invoke: forwards the state it was given. *)
EndNodeInvoke(st) == [raised |-> FALSE, update |-> st]

----------------------------------------------------------------------------
(* create_graph: topology and run *)

(* ITERATIONS of whatsapp_response.py and iterations of the Streamlit UI *)
ITERATIONS == 40

EntryPoint == "memory_extraction_agent"
FinishPoint == "final_node"

(* Variant: the earlier edge memory_extraction_agent -> reservation_agent. *)
EdgeSkippingInjection(node) ==
    CASE node = "memory_extraction_agent" -> "reservation_agent"
      [] node = "memory_injection_agent" -> "reservation_agent"
      [] node = "reservation_agent" -> "final_node"
      [] OTHER -> "none"

(* graph.add_edge *)
Edge(node) ==
    CASE node = "memory_extraction_agent" -> "memory_injection_agent"
      [] node = "memory_injection_agent" -> "reservation_agent"
      [] node = "reservation_agent" -> "final_node"
      [] OTHER -> "none"

Topology == <<"memory_extraction_agent", "memory_injection_agent",
              "reservation_agent", "final_node">>

NoPending == [node |-> "none", update |-> EmptyState]
NoPrev == [node |-> "none", state |-> EmptyState]

(* No call of llm.invoke was made. *)
NoOutput == [kind |-> "none", is_important |-> "absent", formatted_memory |-> NoText]

NoME == [ran |-> FALSE, raised |-> FALSE, vs |-> "unset", llm |-> "none",
         primary |-> "none", fallback |-> "none", attempts |-> <<>>,
         out |-> NoOutput,
         find_ok |-> FALSE, store_ok |-> FALSE, reaches |-> FALSE,
         calls_store |-> FALSE, similar |-> NoMemory,
         before |-> {}, after |-> {}, writes |-> 0, meta_id |-> NoId,
         now |-> 0]

NoProbe == [op |-> "none"]

NoRA == [ran |-> FALSE, raised |-> FALSE, fault |-> "none", prompt_args |-> {},
         llm |-> "none", attempts |-> <<>>, out |-> "none"]

(* The node the driver schedules next. *)
NextNode ==
    IF applied = <<>> THEN EntryPoint ELSE Edge(applied[Len(applied)])

(* The driver is out of steps when the number of finished supersteps
   exceeds recursion_limit. *)
OutOfSteps(step, recursion_limit) == step > recursion_limit

(* Variant: a caller that keeps the last event when astream raises. *)
CallerReportSwallowing(raised, last_event) ==
    IF last_event = "end" THEN "reply"
    ELSE IF raised THEN "reply"
    ELSE "not_completed"

(* What the caller of workflow.astream reports: the error of the except
   clause when astream raised, the reply taken from the final state when
   the last event is keyed "end", and otherwise that no answer was
   obtained.  last_event is the name of the node of the last event. *)
CallerReport(raised, last_event) ==
    IF raised THEN "stream_error"
    ELSE IF last_event = "end" THEN "reply"
    ELSE "not_completed"

(* A node starts when the run is active, the writes of the node before
   it have been merged and the driver is not out of steps. *)
Ready(node) ==
    /\ pc = "running"
    /\ pending = NoPending
    /\ ~OutOfSteps(Len(applied), limit)
    /\ NextNode = node

(* workflow.astream(inputs, ...): the inputs are written through the
   reducers into empty channels.  The WhatsApp handler passes
   research_question only; the Streamlit UI also passes the user message as
   messages (its previous state is the empty default). *)
StartRunWithLimit(ui, recursion_limit) ==
    /\ pc \in {"idle", "done", "failed"}
    /\ turns < MaxTurns
    /\ LET user == Message("user", PlainContent("user"))
           inputs == [EmptyState EXCEPT
                        !.research_question = <<user>>,
                        !.messages = IF ui = "streamlit" THEN <<user>> ELSE <<>>]
           r == ApplyChannels(EmptyState, inputs, ChannelOrder, 1)
       IN  /\ state' = r.state
           /\ nextMsgId' = r.next
           /\ lens' = <<Len(r.state.messages)>>
    /\ pc' = "running"
    /\ turns' = turns + 1
    /\ pending' = NoPending
    /\ order' = <<>>
    /\ applied' = <<>>
    /\ prev' = NoPrev
    /\ me' = NoME
    /\ ra' = NoRA
    /\ outage' = FALSE
    /\ limit' = recursion_limit
    /\ report' = "none"
    /\ UNCHANGED <<probe, storeVars, apiVars, auxVars, vs_cache>>

(* The callers pass {"recursion_limit": ITERATIONS}. *)
StartRun(ui) == StartRunWithLimit(ui, ITERATIONS)

(* Variant: a get_vector_store without its except clause. *)
GetVectorStoreRaising(cache, construct_ok) ==
    IF cache = "unset" THEN (IF construct_ok THEN "store" ELSE "raised") ELSE cache

(* get_vector_store under lru_cache: the first call constructs the store
   or returns None, later calls return the cached value. *)
GetVectorStore(cache, construct_ok) ==
    IF cache = "unset" THEN (IF construct_ok THEN "store" ELSE "none") ELSE cache

(* The node functions evaluate get_vector_store() as an argument of
   invoke, outside the agent's try block: an exception of it is the
   node's, and lru_cache keeps no value for a call that raised. *)
NodeResult(vs, st, result) ==
    IF vs = "raised" THEN [raised |-> TRUE, update |-> st] ELSE result

(* Variant: an lru_cache that keeps no value for a call that returned
   None. *)
CacheAfterForgettingNone(cache, vs) ==
    IF vs \in {"raised", "none"} THEN cache ELSE vs

(* The value lru_cache holds for get_vector_store() after a call that
   gave vs: the value returned, None included. *)
CacheAfter(cache, vs) == IF vs = "raised" THEN cache ELSE vs

(* The node returned: its update waits to be merged, or its exception
   ends the run. *)
NodeReturns(node, result) ==
    /\ order' = Append(order, node)
    /\ IF result.raised
       THEN /\ pc' = "failed"
            /\ pending' = NoPending
            /\ report' = CallerReport(TRUE, IF applied = <<>> THEN "none"
                                            ELSE applied[Len(applied)])
       ELSE /\ pc' = pc
            /\ pending' = [node |-> node, update |-> result.update]
            /\ report' = report

(* memory_extraction_node *)
MemoryExtractionNode ==
    /\ Ready("memory_extraction_agent")
    /\ \E construct_ok, ctor_ok, fallback_ctor_ok \in BOOLEAN, server \in Servers :
        LET vs == GetVectorStore(vs_cache, construct_ok)
            primary == CreateModel(ServerName(server), ctor_ok)
            fallback == IF primary = "ok" THEN "none"
                        ELSE CreateModel(FallbackServer, fallback_ctor_ok)
            llm == GetLlm(primary = "ok", fallback = "ok")
        IN
        \E out \in (IF llm = "ModelError" THEN {NoOutput} ELSE LlmOutputs) :
        LET fm == out.formatted_memory
            reaches == out.kind # "raise" /\ ReachesStorage(llm, out, vs)
        IN
        \E find_ok \in (IF reaches THEN BOOLEAN ELSE {FALSE}) :
            \E similar \in (IF reaches /\ find_ok
                            THEN FindSimilarMemory(points, collection_exists, fm, LookupDevice)
                            ELSE {NoMemory}) :
            LET calls_store == reaches /\ CallsStoreMemory(similar)
            IN
            \E store_ok \in (IF calls_store THEN BOOLEAN ELSE {FALSE}) :
            LET writes == calls_store /\ store_ok
            IN  \E similar2 \in (IF writes
                                 THEN FindSimilarMemory(points, collection_exists, fm,
                                                        OwnerOf(NoDevice))
                                 ELSE {NoMemory}) :
                LET response == GetLlmResponse(llm, out, reaches, calls_store)
                    result == NodeResult(vs, state,
                                         MemoryExtractionInvoke(state, response))
                    after == IF writes
                             THEN StoreMemory(points, fm, nextUuid, clock,
                                              NoDevice, similar2)
                             ELSE points
                IN  /\ points' = after
                    /\ collection_exists' = (collection_exists \/ writes)
                    /\ nextUuid' = IF calls_store THEN nextUuid + 1 ELSE nextUuid
                    /\ clock' = IF calls_store THEN clock + 1 ELSE clock
                    /\ vs_cache' = CacheAfter(vs_cache, vs)
                    /\ me' = [ran |-> TRUE, raised |-> result.raised, vs |-> vs,
                              llm |-> llm, primary |-> primary,
                              fallback |-> fallback,
                              attempts |-> CreateModelCalls(ServerName(server),
                                                            primary = "ok"),
                              out |-> out,
                              find_ok |-> find_ok, store_ok |-> store_ok,
                              reaches |-> reaches, calls_store |-> calls_store,
                              similar |-> similar, before |-> points,
                              after |-> after,
                              writes |-> IF writes THEN 1 ELSE 0,
                              meta_id |-> IF calls_store THEN nextUuid ELSE NoId,
                              now |-> clock]
                    /\ outage' = (outage \/ llm = "ModelError")
                    /\ NodeReturns("memory_extraction_agent", result)
    /\ UNCHANGED <<probe, limit, apiVars, auxVars, state, applied, lens, prev, turns, nextMsgId, ra>>

(* memory_injection_node *)
MemoryInjectionNode ==
    /\ Ready("memory_injection_agent")
    /\ \E construct_ok \in BOOLEAN :
        LET vs == GetVectorStore(vs_cache, construct_ok)
        IN  /\ vs_cache' = CacheAfter(vs_cache, vs)
            /\ NodeReturns("memory_injection_agent",
                           NodeResult(vs, state, MemoryInjectionInvoke(state)))
    /\ UNCHANGED <<probe, limit, storeVars, apiVars, auxVars, state, applied, lens, prev, turns,
                   nextMsgId, me, ra, outage>>

(* reservation_agent_node *)
ReservationNode ==
    /\ Ready("reservation_agent")
    /\ LET formatted == ~FormatRaises(ReservationPlaceholders, ReservationFormatArgs)
       IN
       \E ctor_ok, fallback_ctor_ok \in (IF formatted THEN BOOLEAN ELSE {FALSE}),
          server \in (IF formatted THEN Servers \cup {NoServer} ELSE {NoServer}) :
        LET primary == IF formatted THEN CreateModel(ServerName(server), ctor_ok)
                       ELSE "none"
            fallback == IF primary \in {"ok", "none"} THEN "none"
                        ELSE CreateModel(FallbackServer, fallback_ctor_ok)
            llm == IF formatted THEN GetLlm(primary = "ok", fallback = "ok")
                   ELSE "none"
        IN
        \E out \in (IF llm \in {"none", "ModelError"} THEN {"none"}
                    ELSE ReservationOutputs) :
            LET result == ReservationInvoke(state, llm, out)
            IN  /\ ra' = [ran |-> TRUE, raised |-> result.raised,
                          fault |-> ReservationFault(llm, out),
                          prompt_args |-> ReservationFormatArgs,
                          llm |-> llm,
                          attempts |-> IF formatted
                                       THEN CreateModelCalls(ServerName(server),
                                                             primary = "ok")
                                       ELSE <<>>,
                          out |-> out]
                /\ outage' = (outage \/ llm = "ModelError")
                /\ NodeReturns("reservation_agent", result)
    /\ UNCHANGED <<probe, limit, storeVars, apiVars, auxVars, state, applied, lens, prev, turns,
                   vs_cache, nextMsgId, me>>

(* end_node *)
EndNode ==
    /\ Ready("final_node")
    /\ NodeReturns("final_node", EndNodeInvoke(state))
    /\ UNCHANGED <<probe, limit, storeVars, apiVars, auxVars, state, applied, lens, prev, turns,
                   vs_cache, nextMsgId, me, ra, outage>>

(* The driver merges the update of the node that returned and, after the
   finish point, ends the run. *)
ApplyWrites ==
    /\ pc = "running"
    /\ pending # NoPending
    /\ LET r == ApplyChannels(state, pending.update, ChannelOrder, nextMsgId)
       IN  /\ state' = r.state
           /\ nextMsgId' = r.next
           /\ lens' = Append(lens, Len(r.state.messages))
    /\ prev' = [node |-> pending.node, state |-> state]
    /\ applied' = Append(applied, pending.node)
    /\ pending' = NoPending
    /\ LET finished == /\ pending.node = FinishPoint
                       /\ ~OutOfSteps(Len(applied) + 1, limit)
       IN  /\ pc' = IF finished THEN "done" ELSE "running"
           /\ report' = IF finished THEN CallerReport(FALSE, pending.node)
                         ELSE report
    /\ me' = NoME
    /\ ra' = NoRA
    /\ UNCHANGED <<probe, limit, storeVars, apiVars, auxVars, order, turns, vs_cache, outage>>

(* GraphRecursionError: the driver is out of steps before the run is
   done; astream raises it into the caller. *)
GraphRecursionError ==
    /\ pc = "running"
    /\ pending = NoPending
    /\ OutOfSteps(Len(applied), limit)
    /\ pc' = "failed"
    /\ report' = CallerReport(TRUE, IF applied = <<>> THEN "none"
                                    ELSE applied[Len(applied)])
    /\ UNCHANGED <<storeVars, apiVars, auxVars, probe, limit, state, pending, order,
                   applied, lens, prev, turns, vs_cache, nextMsgId, me, ra,
                   outage>>

(* The agent of another machine stores a fact in the same collection:
   its _process_memory_storage with a reachable store. *)
RemoteStore(text) ==
    /\ calls < MaxRemoteStores
    /\ \E similar \in FindSimilarMemory(points, collection_exists, text, LookupDevice) :
        IF CallsStoreMemory(similar)
        THEN \E similar2 \in FindSimilarMemory(points, collection_exists, text, OtherDevice) :
                /\ points' = StoreMemory(points, text, nextUuid, clock, OtherDevice, similar2)
                /\ collection_exists' = TRUE
                /\ nextUuid' = nextUuid + 1
                /\ clock' = clock + 1
        ELSE UNCHANGED storeVars
    /\ calls' = calls + 1
    /\ UNCHANGED <<last, runVars, auxVars>>

----------------------------------------------------------------------------
(* Concurrent runs of one compiled workflow on one event loop *)

(* The two runs in progress at the same time. *)
Runs == {1, 2}

(* The fact both extraction agents are given by the model. *)
SharedFact == 1

(* What the model returns to the extraction agent of a concurrent run:
   the shared fact judged important, or nothing to remember. *)
ConcurrentOutputs ==
    {[kind |-> "dict", is_important |-> "true", formatted_memory |-> SharedFact],
     [kind |-> "dict", is_important |-> "false", formatted_memory |-> NoText]}

NoStorage == [called |-> FALSE, wrote |-> FALSE, lookup_saw |-> {},
              write_saw |-> {}]

IdleRun == [pc |-> "idle", applied |-> 0, state |-> EmptyState,
            entry |-> EmptyState, ids |-> {}, store_at_call |-> {},
            storage |-> NoStorage]

(* uuid4 of add_messages: an id no run has been given. *)
FreshMsgId == 1 + Cardinality(UNION {runs[r].ids : r \in Runs})

(* Variant: node functions that keep one agent object per node in the
   closure of create_graph. *)
AgentOfCallShared(r, node) == <<0, node>>

(* The agent object of a node call: every node function constructs a new
   agent from the state it was called with. *)
AgentOfCall(r, node) == <<r, node>>

(* Variant: an invoke that appends the user message to the history of the
   state it was given before it calls the model. *)
BeforeModelCallAppending(st) ==
    [st EXCEPT !.messages = Append(@, Message("user", PlainContent("user")))]

(* MemoryExtractionAgent.invoke before the model call, as seen on the
   state object it was given: a state without the key messages gets an
   empty list in place, any other state is not touched. *)
BeforeModelCall(st) ==
    IF "messages" \in DOMAIN st THEN st
    ELSE [k \in DOMAIN st \cup {"messages"} |->
             IF k = "messages" THEN <<>> ELSE st[k]]

(* Variant: a dedup lookup made before the agent is suspended on the
   model call. *)
StoreSeenByLookupEarly(pts_now, pts_at_call) == pts_at_call

(* The points the dedup lookup of _process_memory_storage reads:
   find_similar_memory and store_memory are called one after the other
   without suspension, after the model has returned. *)
StoreSeenByLookup(pts_now, pts_at_call) == pts_now

(* The ids of the messages in the channels of a state. *)
IdsIn(st) ==
    UNION {{st[c][i].id : i \in DOMAIN st[c]} : c \in DOMAIN st}

(* workflow.astream(inputs) of a run: the user message is written through
   the reducer. *)
StartConcurrentRun(r) ==
    /\ runs[r].pc = "idle"
    /\ LET user == Message("user", PlainContent("user"))
           inputs == [EmptyState EXCEPT !.research_question = <<user>>]
           merged == ApplyChannels(EmptyState, inputs, ChannelOrder, FreshMsgId)
       IN  runs' = [runs EXCEPT ![r].pc = "ready",
                                ![r].state = merged.state,
                                ![r].ids = IdsIn(merged.state)]
    /\ UNCHANGED <<storeVars, apiVars, graphVars, probe, hookVars, agents>>

(* The driver calls the next node function of a run with the run's state:
   the function constructs its agent and runs up to its suspension. *)
NodeCall(r) ==
    /\ runs[r].pc = "ready"
    /\ LET node == Topology[runs[r].applied + 1]
           key == AgentOfCall(r, node)
           st == IF node = "memory_extraction_agent"
                 THEN BeforeModelCall(runs[r].state)
                 ELSE runs[r].state
       IN  /\ agents' = [k \in DOMAIN agents \cup {key} |->
                            IF k = key THEN [state |-> st] ELSE agents[k]]
           /\ runs' = [runs EXCEPT ![r].pc = "suspended",
                                    ![r].entry = runs[r].state,
                                    ![r].state = st,
                                    ![r].store_at_call = points]
    /\ UNCHANGED <<storeVars, apiVars, graphVars, probe, hookVars>>

(* The suspended node call of a run is resumed: the agent finishes its
   invoke on self.state (the extraction agent with its dedup lookup and
   write), the node returns and the driver merges the update into the
   state of the run. *)
NodeResume(r) ==
    /\ runs[r].pc = "suspended"
    /\ LET node == Topology[runs[r].applied + 1]
           key == AgentOfCall(r, node)
           st == agents[key].state
           extraction == node = "memory_extraction_agent"
       IN
       \E out \in (IF extraction THEN ConcurrentOutputs ELSE {NoOutput}) :
       LET fm == out.formatted_memory
           reaches == extraction /\ ReachesStorage("configured", out, "store")
           seen == StoreSeenByLookup(points, runs[r].store_at_call)
       IN
       \E find_ok \in (IF reaches THEN BOOLEAN ELSE {FALSE}) :
       \E similar \in (IF reaches /\ find_ok
                       THEN FindSimilarMemory(seen, collection_exists, fm, LookupDevice)
                       ELSE {NoMemory}) :
       LET calls_store == reaches /\ CallsStoreMemory(similar)
       IN
       \E store_ok \in (IF calls_store THEN BOOLEAN ELSE {FALSE}) :
       LET writes == calls_store /\ store_ok
       IN
       \E similar2 \in (IF writes
                        THEN FindSimilarMemory(points, collection_exists, fm,
                                               OwnerOf(NoDevice))
                        ELSE {NoMemory}) :
       LET result ==
               IF extraction
               THEN MemoryExtractionInvoke(st, GetLlmResponse("configured", out,
                                                              reaches, calls_store))
               ELSE IF node = "memory_injection_agent"
               THEN MemoryInjectionInvoke(st)
               ELSE IF node = "reservation_agent"
               THEN ReservationInvoke(st, "none", "none")
               ELSE EndNodeInvoke(st)
           merged == ApplyChannels(runs[r].state, result.update, ChannelOrder,
                                   FreshMsgId)
           finished == node = FinishPoint
       IN  /\ points' = IF writes
                        THEN StoreMemory(points, fm, nextUuid, clock, NoDevice,
                                         similar2)
                        ELSE points
           /\ collection_exists' = (collection_exists \/ writes)
           /\ nextUuid' = IF calls_store THEN nextUuid + 1 ELSE nextUuid
           /\ clock' = IF calls_store THEN clock + 1 ELSE clock
           /\ agents' = [agents EXCEPT ![key].state = result.update]
           /\ runs' = [runs EXCEPT
                  ![r].pc = IF finished THEN "done" ELSE "ready",
                  ![r].applied = runs[r].applied + 1,
                  ![r].state = merged.state,
                  ![r].ids = runs[r].ids \cup
                             {i \in FreshMsgId..(merged.next - 1) : TRUE},
                  ![r].storage = IF extraction
                                 THEN [called |-> calls_store, wrote |-> writes,
                                       lookup_saw |-> seen, write_saw |-> points]
                                 ELSE runs[r].storage]
    /\ UNCHANGED <<apiVars, graphVars, probe, hookVars>>

(* The task of a run is cancelled while its extraction agent is suspended
   on the model call: CancelledError is no Exception, so no except clause
   of the agent handles it and the node call is abandoned. *)
CancelModelCall(r) ==
    /\ runs[r].pc = "suspended"
    /\ Topology[runs[r].applied + 1] = "memory_extraction_agent"
    /\ runs' = [runs EXCEPT ![r].pc = "cancelled"]
    /\ UNCHANGED <<storeVars, apiVars, graphVars, probe, hookVars, agents>>

----------------------------------------------------------------------------
(* whatsapp_handler and managed_mcp_connection *)

MaxDeliveries == 3
MaxMessageIds == 2

(* The ids of the WhatsApp messages Meta delivers. *)
MessageIds == 1..MaxMessageIds

(* message.get("type") *)
MessageTypes == {"text", "image"}

(* The parameters of create_graph and the keywords managed_mcp_connection
   passes to it. *)
CreateGraphParameters == {"server", "model", "stop", "model_endpoint",
                          "temperature", "session", "agent_mcp_config"}
WhatsappCreateGraphArgs == {"server", "model", "model_endpoint", "tools",
                            "session"}

(* A call raises TypeError for a keyword that is no parameter. *)
CreateGraphRaises(kwargs) == ~(kwargs \subseteq CreateGraphParameters)

(* What managed_mcp_connection yields as session and workflow (FALSE for
   None): None for both when the script is missing, when the session
   cannot be initialised, when list_tools raises and when create_graph or
   compile_workflow raises. *)
ManagedMcpConnection(script_exists, initialize_ok, list_tools_ok) ==
    IF ~script_exists \/ ~initialize_ok \/ ~list_tools_ok
    THEN [session |-> FALSE, workflow |-> FALSE]
    ELSE IF CreateGraphRaises(WhatsappCreateGraphArgs)
    THEN [session |-> FALSE, workflow |-> FALSE]
    ELSE [session |-> TRUE, workflow |-> TRUE]

(* whatsapp_handler for a delivery with a message, up to its first
   suspension after the id check: a message whose id equals
   last_processed_message_id is skipped, any other id is recorded; a
   message that is not text is answered at once. *)
WhatsappHandler ==
    /\ Len(deliveries) < MaxDeliveries
    /\ \E message_id \in MessageIds, type \in MessageTypes :
        LET skipped == message_id = last_processed_message_id
            response == IF skipped THEN "Message already processed"
                        ELSE IF type # "text" THEN "Unsupported message type"
                        ELSE "pending"
        IN  /\ last_processed_message_id' =
                   IF skipped THEN last_processed_message_id ELSE message_id
            /\ deliveries' = Append(deliveries,
                                    [id |-> message_id, type |-> type,
                                     mcp_ok |-> FALSE, response |-> response])
    /\ UNCHANGED <<storeVars, apiVars, graphVars, probe, concVars>>

(* whatsapp_handler for a text message from `async with
   managed_mcp_connection` on: without session or workflow it answers 500,
   otherwise it executes the workflow. *)
WhatsappWorkflow ==
    /\ \E i \in DOMAIN deliveries :
        /\ deliveries[i].response = "pending"
        /\ \E script_exists, initialize_ok, list_tools_ok \in BOOLEAN :
            LET conn == ManagedMcpConnection(script_exists, initialize_ok,
                                             list_tools_ok)
                response == IF ~conn.session \/ ~conn.workflow
                            THEN "Failed to start MCP session"
                            ELSE "workflow executed"
            IN  deliveries' = [deliveries EXCEPT
                    ![i].mcp_ok = script_exists /\ initialize_ok /\ list_tools_ok,
                    ![i].response = response]
    /\ UNCHANGED <<storeVars, apiVars, graphVars, probe, concVars,
                   last_processed_message_id>>

----------------------------------------------------------------------------
(* Specifications *)

InitStore ==
    /\ points = {}
    /\ collection_exists = FALSE
    /\ clock = 1
    /\ nextUuid = 1
    /\ calls = 0
    /\ last = NoCall

InitRun ==
    /\ pc = "idle"
    /\ state = EmptyState
    /\ pending = NoPending
    /\ order = <<>>
    /\ applied = <<>>
    /\ lens = <<0>>
    /\ prev = NoPrev
    /\ turns = 0
    /\ vs_cache = "unset"
    /\ nextMsgId = 1
    /\ me = NoME
    /\ ra = NoRA
    /\ outage = FALSE
    /\ probe = NoProbe
    /\ limit = ITERATIONS
    /\ report = "none"

InitConcurrent ==
    /\ runs = [r \in Runs |-> IdleRun]
    /\ agents = <<>>

InitHook ==
    /\ last_processed_message_id = NoId
    /\ deliveries = <<>>

Init == InitStore /\ InitRun /\ InitHook /\ InitConcurrent

Next ==
    \/ \E ui \in {"whatsapp", "streamlit"} : StartRun(ui)
    \/ MemoryExtractionNode
    \/ MemoryInjectionNode
    \/ ReservationNode
    \/ EndNode
    \/ ApplyWrites
    \/ \E text \in Texts : RemoteStore(text)

Spec == Init /\ [][Next]_vars

NextStore ==
    \E text \in Texts, with_id \in BOOLEAN, device_id \in Devices \cup {NoDevice} :
        StoreMemoryCall(text, with_id, device_id)

SpecStore == Init /\ [][NextStore]_vars

(* A direct call of _process_reservation_response with a response text. *)
ProcessReservationResponseCall ==
    /\ probe = NoProbe
    /\ \E response \in ResponseTexts :
        probe' = [op |-> "process", response |-> response,
                  class |-> IF IsRegularTextResponse(response)
                            THEN "plain" ELSE "tool-result",
                  content |-> ProcessResponseText(response)]
    /\ UNCHANGED <<storeVars, apiVars, auxVars, graphVars>>

(* A direct call of _format_tool_response with a response text. *)
FormatToolResponseCall ==
    /\ probe = NoProbe
    /\ \E response \in ResponseTexts :
        probe' = [op |-> "format", response |-> response,
                  class |-> "tool-result",
                  content |-> FormatToolResponse(response)]
    /\ UNCHANGED <<storeVars, apiVars, auxVars, graphVars>>

(* A direct call of handle_function_call on an adapter. *)
HandleFunctionCallCall(adapter) ==
    /\ probe = NoProbe
    /\ \E name \in CallNames, args \in CallArgs, session \in Sessions :
        probe' = [op |-> "handle_function_call", adapter |-> adapter,
                  name |-> name, args |-> args, session |-> session,
                  returned |-> HandleFunctionCall(adapter, name, args, session)]
    /\ UNCHANGED <<storeVars, apiVars, auxVars, graphVars>>

NextTools ==
    \E adapter \in RegisteredModels : HandleFunctionCallCall(adapter)

SpecTools == Init /\ [][NextTools]_vars

(* A call of create_graph with one entry in agent_mcp_config. *)
CreateGraphCall(agent_name) ==
    /\ probe = NoProbe
    /\ \E shape \in [ConfigFields -> {"absent", "None", "value"}] :
        LET config == OverrideConfig(shape)
            agent_mcp_config == [a \in {agent_name} |-> config]
        IN  probe' = [op |-> "create_graph", agent_name |-> agent_name,
                      config |-> config,
                      agent_config |-> MergeAgentConfig(default_agent_config,
                                                        agent_mcp_config)]
    /\ UNCHANGED <<storeVars, apiVars, auxVars, graphVars>>

NextConfig ==
    \E agent_name \in ConfigAgentNames : CreateGraphCall(agent_name)

SpecConfig == Init /\ [][NextConfig]_vars

(* Runs under every recursion_limit up to the number of nodes, and under
   the limit the callers use. *)
RecursionLimits == 0..Len(Topology) \cup {ITERATIONS}

NextCeiling ==
    \/ \E ui \in {"whatsapp", "streamlit"}, recursion_limit \in RecursionLimits :
          StartRunWithLimit(ui, recursion_limit)
    \/ MemoryExtractionNode
    \/ MemoryInjectionNode
    \/ ReservationNode
    \/ EndNode
    \/ ApplyWrites
    \/ GraphRecursionError

SpecCeiling == Init /\ [][NextCeiling]_vars

(* A direct call of GeminiJSONModel.invoke. *)
GeminiInvokeCall ==
    /\ probe = NoProbe
    /\ \E generate_ok, summarize_ok \in BOOLEAN, response \in GeminiResponses,
          name \in CallNames, args \in CallArgs, session \in Sessions :
        probe' = [op |-> "gemini_invoke", generate_ok |-> generate_ok,
                  response |-> response,
                  returned |-> GeminiInvoke(generate_ok, response, name, args,
                                            session, summarize_ok)]
    /\ UNCHANGED <<storeVars, apiVars, auxVars, graphVars>>

(* A direct call of Groq.invoke. *)
GroqInvokeCall ==
    /\ probe = NoProbe
    /\ \E create_ok, with_session_and_tools, ainvoke_ok \in BOOLEAN,
          tool_calls \in ToolCallLists :
        probe' = [op |-> "groq_invoke", generate_ok |-> create_ok /\ ainvoke_ok,
                  with_session_and_tools |-> with_session_and_tools,
                  tool_calls |-> tool_calls,
                  returned |-> GroqInvoke(create_ok, with_session_and_tools,
                                          ainvoke_ok, tool_calls)]
    /\ UNCHANGED <<storeVars, apiVars, auxVars, graphVars>>

NextConcurrent ==
    \E r \in Runs :
        \/ StartConcurrentRun(r)
        \/ NodeCall(r)
        \/ NodeResume(r)
        \/ CancelModelCall(r)

SpecConcurrent == Init /\ [][NextConcurrent]_vars

NextWebhook ==
    \/ WhatsappHandler
    \/ WhatsappWorkflow

SpecWebhook == Init /\ [][NextWebhook]_vars

NextAdapters ==
    \/ GeminiInvokeCall
    \/ GroqInvokeCall

SpecAdapters == Init /\ [][NextAdapters]_vars

NextResponse ==
    \/ ProcessReservationResponseCall
    \/ FormatToolResponseCall

SpecResponse == Init /\ [][NextResponse]_vars

----------------------------------------------------------------------------
(* Claims about the graph run, checked under Spec *)

IsPrefix(s, t) ==
    /\ Len(s) <= Len(t)
    /\ \A i \in 1..Len(s) : s[i] = t[i]

(* C1: the nodes of a run execute in exactly the order
   memory_extraction_agent, memory_injection_agent, reservation_agent,
   final_node, each once and none skipped, and a node starts only when the
   update of the node before it has been merged. *)
C1_FixedTopologyOrder ==
    /\ IsPrefix(order, Topology)
    /\ IsPrefix(applied, order)
    /\ Len(order) - Len(applied) = (IF pending # NoPending THEN 1 ELSE 0)
    /\ pc = "done" => (order = Topology /\ applied = Topology)

C1_Witness ==
    /\ pc = "done"
    /\ order = Topology
    /\ applied = Topology

AgentNodes == {"memory_extraction_agent", "reservation_agent"}

(* C2: every invocation of MemoryExtractionAgent or ReservationAgent makes
   the messages history exactly one longer once its returned state is
   merged through add_messages, on the success and on the error path, so
   that N invocations add exactly N. *)
C2_HistoryGrowsByOne ==
    /\ Len(lens) = Len(applied) + 1
    /\ \A i \in 1..Len(applied) :
          applied[i] \in AgentNodes => lens[i + 1] = lens[i] + 1
    /\ prev.node \in AgentNodes =>
          /\ Len(state.messages) = Len(prev.state.messages) + 1
          /\ IsPrefix(prev.state.messages, state.messages)

C2_Witness ==
    /\ pc = "done"
    /\ Len(state.messages) = lens[1] + 3
    /\ lens[1] = 1
    /\ state.memory_extraction_response[1].content.kind = "json"
    /\ state.reservation_response[1].content.kind = "error_text"

ResultFields == {"memory_injection_response", "memory_extraction_response",
                 "reservation_response", "support_response", "human_response"}

OwnField(node) ==
    IF node = "memory_extraction_agent" THEN "memory_extraction_response"
    ELSE "reservation_response"

(* C3: an agent invocation appends exactly one element to its own result
   field and leaves the result fields of the other agents as they were. *)
C3_OwnResultFieldOnly ==
    prev.node \in AgentNodes =>
        /\ Len(state[OwnField(prev.node)]) = Len(prev.state[OwnField(prev.node)]) + 1
        /\ IsPrefix(prev.state[OwnField(prev.node)], state[OwnField(prev.node)])
        /\ \A f \in ResultFields \ {OwnField(prev.node)} : state[f] = prev.state[f]

C3_Witness ==
    /\ prev.node = "reservation_agent"
    /\ Len(state.reservation_response) = 1
    /\ Len(state.memory_extraction_response) = 1
    /\ Len(state.memory_injection_response) = 1

(* The content MemoryExtractionAgent.invoke returned as its result. *)
ExtractionOutput == pending.update.memory_extraction_response[1].content

(* An exception was raised while obtaining the model, invoking it, parsing
   its output or accessing the Memory Store. *)
ExtractionException ==
    \/ me.llm = "ModelError"
    \/ me.out.kind \in {"raise", "nonjson", "parse_fault"}
    \/ me.reaches /\ ~me.find_ok
    \/ me.calls_store /\ ~me.store_ok

(* C4: MemoryExtractionAgent.invoke never raises; for any exception while
   obtaining the model, invoking it, parsing or writing to the store, the
   returned memory_extraction_response is an error output carrying
   is_important = false, and the pipeline continues. *)
C4_ExtractionNeverRaises ==
    (me.ran /\ ExtractionException) =>
        /\ ~me.raised
        /\ pc = "running"
        /\ pending.node = "memory_extraction_agent"
        /\ ExtractionOutput.is_important = "false"

(* C5: when the model returns text that is not JSON, invoke does not raise,
   writes nothing to the Memory Store, and its output has
   is_important = false and retains the raw text. *)
C5_NonJsonDegrades ==
    (me.ran /\ me.llm # "ModelError" /\ me.out.kind = "nonjson") =>
        /\ ~me.raised
        /\ pending.node = "memory_extraction_agent"
        /\ me.writes = 0
        /\ me.after = me.before
        /\ ExtractionOutput.is_important = "false"
        /\ ExtractionOutput.raw_text

C5_Witness ==
    /\ me.ran
    /\ me.llm # "ModelError"
    /\ me.out.kind = "nonjson"
    /\ me.vs = "store"
    /\ me.before # {}
    /\ pending.node = "memory_extraction_agent"

(* C8: when the fact is judged important and the store holds a record at
   or above the threshold, the agent updates that record in place: it
   keeps its id and carries the new text and a refreshed timestamp. *)
C8_AgentUpdatesMatchInPlace ==
    (me.ran /\ me.reaches /\ me.similar # NoMemory) =>
        \E q \in me.after :
            /\ q.pid = me.similar.pid
            /\ q.text = me.out.formatted_memory
            /\ q.timestamp = me.now

(* Records of this device at or above the threshold before the invocation. *)
OwnNearBefore ==
    {p \in me.before : /\ p.device_id = ThisDevice
                       /\ Sim(p.text, me.out.formatted_memory) >= SIMILARITY_THRESHOLD}

(* C9: the dedup lookup of the agent is scoped to the same owner: a record
   of another device is never the match, and without a near-duplicate of
   its own the fact of this device is stored. *)
C9_LookupScopedToOwner ==
    (me.ran /\ me.reaches /\ me.find_ok) =>
        /\ me.similar # NoMemory => me.similar.device_id = ThisDevice
        /\ (OwnNearBefore = {} /\ me.store_ok) => me.writes = 1

(* C10: one invocation performs at most one Memory Store write, and none
   when is_important is false or absent, formatted_memory is empty or
   null, or there is no Memory Store handle. *)
C10_AtMostOneWrite ==
    me.ran =>
        /\ me.writes <= 1
        /\ Cardinality(me.after \ me.before) <= me.writes
        /\ Cardinality(me.before \ me.after) <= me.writes
        /\ (\/ me.out.is_important # "true"
            \/ me.out.formatted_memory \in {NoText, EmptyText}
            \/ me.vs = "none")
           => (me.writes = 0 /\ me.after = me.before)

C10_Witness ==
    /\ me.ran
    /\ me.writes = 1
    /\ Cardinality(me.after) = Cardinality(me.before) + 1
    /\ me.before # {}

----------------------------------------------------------------------------
(* Claims about VectorStore.store_memory, checked under SpecStore *)

(* Records of the owner of the last call that were at or above the
   threshold when the call was made. *)
NearBefore ==
    {p \in last.before : /\ p.device_id = last.owner
                         /\ Sim(p.text, last.text) >= SIMILARITY_THRESHOLD}

(* C6: store_memory applies the dedup threshold exactly: when a record of
   the same owner has similarity >= 0.9 the matched record is updated in
   place (record count unchanged, same id, new text); otherwise a new
   distinct record is inserted (record count + 1); for every metadata,
   with or without an "id". *)
C6_DedupThresholdExact ==
    last # NoCall =>
        IF NearBefore # {}
        THEN /\ Cardinality(points) = Cardinality(last.before)
             /\ last.similar \in NearBefore
             /\ \E q \in points : q.pid = last.similar.pid /\ q.text = last.text
        ELSE /\ Cardinality(points) = Cardinality(last.before) + 1
             /\ \A p \in last.before : p \in points

(* C7: storing the same text under the same owner twice in succession
   leaves exactly one record for it, and the second write reuses the id of
   the first write. *)
C7_SameTextTwiceOneRecord ==
    (last.text # NoText /\ last.text = last.prev_text /\ last.owner = last.prev_owner)
        => /\ Cardinality({p \in points : p.text = last.text
                                          /\ p.device_id = last.owner}) = 1
           /\ last.pid = last.prev_pid

----------------------------------------------------------------------------
(* Claims about Agent.get_llm, checked under Spec *)

(* C11: get_llm falls back exactly once, to gemini, when resolving the
   configured backend fails for any reason (an unregistered name
   included); it raises ModelError if and only if the fallback
   construction fails too, and makes no further construction attempt. *)
C11_FallbackExactlyOnce ==
    me.ran =>
        /\ Len(me.attempts) \in {1, 2}
        /\ (Len(me.attempts) = 2) <=> (me.primary # "ok")
        /\ (Len(me.attempts) = 2) => (me.attempts[2] = FallbackServer)
        /\ (me.llm = "configured") <=> (me.primary = "ok")
        /\ (me.llm = "gemini") <=> (me.primary # "ok" /\ me.fallback = "ok")
        /\ (me.llm = "ModelError") <=> (me.primary # "ok" /\ me.fallback # "ok")

C11_Witness ==
    /\ me.ran
    /\ me.primary = "ValueError"
    /\ me.attempts = <<"other", "gemini">>
    /\ me.llm = "gemini"

(* C12: when neither the configured backend nor the fallback backend can
   be constructed, the run terminates as a failure and does not complete
   with a final state. *)
C12_TotalOutageFailsRun ==
    outage => pc # "done"

----------------------------------------------------------------------------
(* Claims about ReservationAgent.invoke, checked under Spec *)

(* C13: on every ReservationAgent invocation the prompt is composed from
   the template, the tool results, the chat history, the memory context
   staged by the injection step and the tool descriptions, and the model
   is then invoked with it. *)
C13_MemoryContextReachesModel ==
    ra.ran =>
        /\ ra.fault # "format"
        /\ ReservationPlaceholders \subseteq ra.prompt_args
        /\ ra.llm # "none"
        /\ (ra.llm # "ModelError" => ra.out # "none")

(* The error message _handle_reservation_error builds. *)
ReservationErrorObject == Message("assistant", PlainContent("error_text"))

(* C16: ReservationAgent.invoke never raises; an exception inside the
   invocation is caught, exactly one assistant error message is appended
   to messages, and reservation_response is that same message. *)
C16_ReservationNeverRaises ==
    ra.ran =>
        /\ ~ra.raised
        /\ pc = "running"
        /\ pending.node = "reservation_agent"
        /\ (ra.fault # "none" =>
                /\ pending.update.messages = state.messages \o <<ReservationErrorObject>>
                /\ pending.update.reservation_response = <<ReservationErrorObject>>)

C16_Witness ==
    /\ ra.ran
    /\ ra.fault = "format"
    /\ pending.node = "reservation_agent"
    /\ Len(pending.update.messages) = Len(state.messages) + 1
    /\ pending.update.reservation_response[1].role = "assistant"

----------------------------------------------------------------------------
(* Claims about the response text, checked under SpecResponse *)

(* The text contains one of the four marker phrases. *)
HasMarker(response) ==
    \E i \in 1..Len(response) : response[i] \in tool_markers \cup {QuotedMarker}

(* C14: the classification is a function of the response text: tool-result
   if and only if the text contains at least one of the four marker
   phrases, plain language otherwise; a plain-language response becomes
   the message content unchanged. *)
C14_ClassificationByMarkers ==
    probe.op = "process" =>
        /\ (probe.class = "tool-result") <=> HasMarker(probe.response)
        /\ (probe.class = "plain") <=> ~HasMarker(probe.response)
        /\ (probe.class = "plain") => (probe.content = Unchanged(probe.response))

C14_Witness ==
    /\ probe.op = "process"
    /\ probe.class = "tool-result"
    /\ probe.response = <<"word", "REZERVASYON SILME SONUCLARI", "word">>

(* C15: for every input string _format_tool_response returns a text that
   parses as a JSON object unchanged, a text that parses as another JSON
   value wrapped under the field response, and a text that does not parse
   with the raw text wrapped under the field response. *)
C15_FormatToolResponse ==
    probe.op = "format" =>
        LET parsed == JsonLoads(probe.response)
        IN  /\ (parsed.st = "ok" /\ parsed.kind = "dict") =>
                    (probe.content = Unchanged(probe.response))
            /\ (parsed.st = "ok" /\ parsed.kind # "dict") =>
                    (probe.content = WrappedValue(parsed.canon))
            /\ (parsed.st # "ok") =>
                    (probe.content = WrappedText(probe.response))

----------------------------------------------------------------------------
(* Claims about handle_function_call, checked under SpecTools *)

(* The call names a known tool and carries all its required arguments. *)
ValidCall(name, args) ==
    /\ name \in available_tool_names
    /\ RequiredArgs[name] \subseteq args

(* C17: handle_function_call executes the tool if and only if the name
   matches a known tool and all required arguments are present (a tool
   without required arguments is executed with an empty argument map);
   every invalid call and every failed execution returns a structured
   error and nothing is raised. *)
C17_ToolCallValidation ==
    probe.op = "handle_function_call" =>
        /\ ~probe.returned.raised
        /\ (probe.session # "None") =>
              (probe.returned.executed <=> ValidCall(probe.name, probe.args))
        /\ ~ValidCall(probe.name, probe.args) => (probe.returned.result = "error")
        /\ (probe.returned.executed /\ probe.session = "raises") =>
              (probe.returned.result = "error")

----------------------------------------------------------------------------
(* Claims about the agent configuration, checked under SpecConfig *)

(* C18: create_graph merges the overrides field by field: for a known
   agent a present, non-null field replaces the default, an absent or null
   field leaves the default, and the other agents keep their defaults; an
   entry under an unknown name is stored and changes the configuration of
   no existing node. *)
C18_FieldwiseOverrideMerge ==
    probe.op = "create_graph" =>
        LET a == probe.agent_name
            config == probe.config
            replaces(f) == f \in DOMAIN config /\ config[f] # "None"
        IN  /\ \A n \in DOMAIN default_agent_config \ {a} :
                    NodeConfig(probe.agent_config, n) = default_agent_config[n]
            /\ a \in DOMAIN default_agent_config =>
                    \A f \in ConfigFields :
                        CfgGet(NodeConfig(probe.agent_config, a), f, "absent") =
                            IF replaces(f) THEN config[f]
                            ELSE default_agent_config[a][f]
            /\ a \notin DOMAIN default_agent_config =>
                    NodeConfig(probe.agent_config, a) = config

C18_Witness ==
    /\ probe.op = "create_graph"
    /\ probe.agent_name = "memory_extraction_agent"
    /\ probe.config = [server |-> "override:server", model |-> "None"]
    /\ probe.agent_config["memory_extraction_agent"].server = "override:server"
    /\ probe.agent_config["memory_extraction_agent"].model = "llama-3.1-8b-instant"

----------------------------------------------------------------------------
(* Claims about the step ceiling, checked under SpecCeiling *)

(* The run that has been started can take a step: an update waits to be
   merged, the driver is out of steps, or the next node can start. *)
CanStep ==
    \/ pending # NoPending
    \/ OutOfSteps(Len(applied), limit)
    \/ \E i \in 1..Len(Topology) : Ready(Topology[i])

(* C19: when recursion_limit is smaller than the number of nodes of the
   topology, the run ends with a failure reported to the caller: it does
   not loop or hang and is not cut short into a result that looks
   successful. *)
C19_CeilingReportedFailure ==
    (pc # "idle" /\ limit < Len(Topology)) =>
        /\ pc # "done"
        /\ report \in {"none", "stream_error"}
        /\ Len(order) <= limit + 1
        /\ (pc = "running") => (report = "none" /\ CanStep)
        /\ (pc = "failed") => (report = "stream_error")

C19_Witness ==
    /\ limit = 2
    /\ pc = "failed"
    /\ report = "stream_error"
    /\ order = <<"memory_extraction_agent", "memory_injection_agent",
                 "reservation_agent">>

----------------------------------------------------------------------------
(* Claims about an unavailable Memory Store, checked under Spec *)

(* The store handle is None, or a call on the store raised. *)
StoreUnavailable ==
    \/ me.vs = "none"
    \/ me.reaches /\ ~me.find_ok
    \/ me.calls_store /\ ~me.store_ok

(* C20: an unavailable Memory Store never fails a run: get_vector_store
   returns None and does not raise, and a MemoryExtractionAgent invocation
   whose store handle is None or whose store calls raise completes,
   appends its one message, and the pipeline proceeds. *)
C20_StoreUnavailableTolerated ==
    me.ran =>
        /\ me.vs \in {"store", "none"}
        /\ StoreUnavailable =>
              /\ ~me.raised
              /\ pc = "running"
              /\ pending.node = "memory_extraction_agent"
              /\ Len(pending.update.messages) = Len(state.messages) + 1
              /\ SubSeq(pending.update.messages, 1, Len(state.messages)) = state.messages
              /\ pending.update.memory_extraction_response =
                    <<pending.update.messages[Len(pending.update.messages)]>>

C20_Witness ==
    /\ me.ran
    /\ me.vs = "store"
    /\ me.calls_store
    /\ ~me.store_ok
    /\ pending.node = "memory_extraction_agent"
    /\ me.after = me.before

----------------------------------------------------------------------------
(* Claims about the callers of the workflow, checked under Spec *)

(* C21: after a run that traversed all nodes the caller takes the final
   state from the last event of the run and returns the content of the
   last element of reservation_response as the reply to the user. *)
C21_ReplyFromFinalState ==
    (pc = "done" /\ applied = Topology) =>
        /\ report = "reply"
        /\ state.reservation_response # <<>>

----------------------------------------------------------------------------
(* Claims about concurrent runs, checked under SpecConcurrent *)

(* C23: two runs of the same compiled workflow on distinct state objects
   do not interfere through the orchestrator: every message in a field of
   a run's state was given its id in that run, none comes from the state
   of the other run. *)
C23_RunsDoNotInterfere ==
    \A r \in Runs : IdsIn(runs[r].state) \subseteq runs[r].ids

C23_Witness ==
    /\ runs[1].pc = "suspended"
    /\ runs[2].pc = "suspended"
    /\ runs[1].applied = 1
    /\ runs[2].applied = 1
    /\ IdsIn(runs[1].state) # {}
    /\ IdsIn(runs[1].state) \cap IdsIn(runs[2].state) = {}

(* The records of the shared fact held for this device. *)
SharedFactRecords ==
    {p \in points : p.text = SharedFact /\ p.device_id = ThisDevice}

(* C24: the dedup lookup and the write of one extraction invocation are
   one step with respect to the other invocations of the event loop: the
   write acts on the store the lookup read, and two concurrent invocations
   storing the same fact for the same owner leave exactly one record. *)
C24_DedupReadThenWriteAtomic ==
    /\ \A r \in Runs :
          runs[r].storage.called =>
              runs[r].storage.lookup_saw = runs[r].storage.write_saw
    /\ Cardinality(SharedFactRecords) <= 1
    /\ (\E r \in Runs : runs[r].storage.wrote) =>
           Cardinality(SharedFactRecords) = 1

C24_Witness ==
    /\ runs[1].storage.wrote
    /\ runs[2].applied >= 1
    /\ runs[2].store_at_call = {}
    /\ runs[2].storage.lookup_saw # {}
    /\ ~runs[2].storage.called
    /\ Cardinality(SharedFactRecords) = 1

(* C25: an extraction invocation cancelled while suspended on the model
   call leaves the state object it was given as it was on entry; an
   invocation that returns has installed its message in the result field
   and in the history together. *)
C25_CancelLeavesStateUnchanged ==
    \A r \in Runs :
        /\ runs[r].pc = "cancelled" => runs[r].state = runs[r].entry
        /\ runs[r].applied >= 1 =>
              LET response == runs[r].state.memory_extraction_response
                  messages == runs[r].state.messages
              IN  /\ response # <<>>
                  /\ \E i \in DOMAIN messages :
                        messages[i].content = response[Len(response)].content

C25_Witness ==
    /\ runs[1].pc = "cancelled"
    /\ runs[1].state.research_question # <<>>
    /\ runs[1].state = runs[1].entry
    /\ runs[2].applied >= 1

----------------------------------------------------------------------------
(* Claims about the WhatsApp webhook, checked under SpecWebhook *)

(* C26: over any sequence of webhook deliveries the handler processes a
   WhatsApp message id at most once: a delivery whose id was delivered
   before is skipped with "Message already processed". *)
C26_AtMostOncePerMessageId ==
    \A i, j \in DOMAIN deliveries :
        (i < j /\ deliveries[i].id = deliveries[j].id) =>
            deliveries[j].response = "Message already processed"

(* C27: for a new text message, when the MCP script exists, the session
   initialises and the tool listing succeeds, the handler reaches the
   execution of the workflow and does not answer "Failed to start MCP
   session". *)
C27_WorkflowReached ==
    \A i \in DOMAIN deliveries :
        (deliveries[i].type = "text" /\ deliveries[i].mcp_ok) =>
            deliveries[i].response # "Failed to start MCP session"

----------------------------------------------------------------------------
(* Claims about the memory store handle, checked under Spec *)

(* C28: MemoryExtractionAgent calls store_memory only after a dedup lookup
   that completed and found no match; when find_similar_memory raises the
   invocation does not go on to insert the fact. *)
C28_InsertOnlyAfterCompletedLookup ==
    (me.ran /\ me.calls_store) => me.find_ok

(* C29: get_vector_store is memoized for the process lifetime, failures
   included: the value a call returned (None or the store) is the value
   held afterwards, and a held value never changes, so every later call
   returns it without constructing again. *)
C29_GetVectorStoreMemoized ==
    [][/\ me'.ran => (vs_cache' = me'.vs)
       /\ (vs_cache # "unset") => (vs_cache' = vs_cache)]_vars

C29_Witness ==
    /\ turns = 2
    /\ me.ran
    /\ me.vs = "none"
    /\ vs_cache = "none"

----------------------------------------------------------------------------
(* Claims about the adapters' invoke, checked under SpecAdapters *)

(* C22: invoke of the Gemini and of the Groq adapter never raises; every
   backend failure during generation is returned as a message with
   textual content. *)
C22_AdapterInvokeNeverRaises ==
    probe.op \in {"gemini_invoke", "groq_invoke"} =>
        /\ ~probe.returned.raised
        /\ probe.returned.message # "none"
        /\ ~probe.generate_ok => (probe.returned.message = "error_text")

C22_Witness ==
    /\ probe.op = "gemini_invoke"
    /\ ~probe.generate_ok
    /\ probe.returned.message = "error_text"

(* The positions of the tool calls that carry a name and arguments. *)
Executable(tool_calls) ==
    {i \in 1..Len(tool_calls) : tool_calls[i].name # "" /\ tool_calls[i].has_args}

(* s lists exactly the positions of set, in increasing order. *)
InOrder(s, set) ==
    /\ {s[k] : k \in 1..Len(s)} = set
    /\ \A k \in 1..(Len(s) - 1) : s[k] < s[k + 1]

(* C30: within one Groq.invoke that receives several tool calls the calls
   are executed in the order given, a failing call does not keep the
   remaining calls from being executed, the calls that succeeded stay
   done, and invoke returns a message. *)
C30_ToolCallsIsolated ==
    (/\ probe.op = "groq_invoke"
     /\ probe.generate_ok
     /\ probe.with_session_and_tools) =>
        LET tool_calls == probe.tool_calls
            log == probe.returned.log
        IN  /\ InOrder(log.executed, Executable(tool_calls))
            /\ InOrder(log.effects,
                       {i \in Executable(tool_calls) : tool_calls[i].ok})
            /\ ~probe.returned.raised
            /\ probe.returned.message = "text"

C30_Witness ==
    /\ probe.op = "groq_invoke"
    /\ probe.generate_ok
    /\ probe.with_session_and_tools
    /\ Len(probe.tool_calls) = 2
    /\ ~probe.tool_calls[1].ok
    /\ probe.returned.log.executed = <<1, 2>>
    /\ probe.returned.log.effects = <<2>>

====
